---- MODULE Spec2Model ----
(***************************************************************************)
(* Model of the cloud-sync path of aw-watcher-web:                         *)
(*   storage.ts     heartbeatMerge, getASHeartbeats, addASHeartbeat,       *)
(*                  clearASHeartbeats, the managed-storage policies        *)
(*   heartbeat.ts   sendHeartbeat and the two listeners that reach it      *)
(*   cloud-sync.ts  cloudSyncAlarmListener and its helpers                 *)
(* Every await of the code is a step boundary: handlers of the one         *)
(* JavaScript event loop interleave at awaits and nowhere else.            *)
(***************************************************************************)
EXTENDS Integers, Sequences, FiniteSets, TLC

VARIABLES
    store,      \* browser.storage.local key 'asHeartbeats'
    managed,    \* browser.storage.managed: CLOUD_SYNC, TAG, SUBDOMAIN
    hb,         \* the in-flight sendHeartbeat/addASHeartbeat call of each listener
    sync,       \* the in-flight cloudSyncAlarmListener call
    sent,       \* fetch calls of the current sync cycle: <<[batch, result]>>
    local,      \* browser.storage.local keys 'enabled' and 'lastSyncSuccess'
    wait,       \* the in-flight waitForKey call and the onChanged events under way
    hist        \* observation of the run (not program state)

vars == <<store, managed, hb, sync, sent, local, wait, hist>>

----------------------------------------------------------------------------
(* Bounds of the model.                                                    *)

MaxCalls == 2       \* sendHeartbeat calls in a run of Spec
MaxCycles == 2      \* cloud-sync alarms in a run
BigLen == 110       \* length of the large persisted buffer of SpecBatch
BigCalls == 1       \* sendHeartbeat calls in a run of SpecBatch
RichCalls == 1
MaxFilterLen == 3
MaxClears == 2
MaxFaults == 1
MaxAttempts == 6
RetryCalls == 2
SeqCalls == 3
MaxSets == 2

(* Program constants.                                                      *)

\* Faulty variant: half the batch size.
BatchSizeHalf == 100 \div 2

BatchSize == 100        \* processInBatches(data, 100, ...)
DefaultPulsetime == 30  \* addASHeartbeat(heartbeat, pulsetime = 30)
HeartbeatInterval == 60 \* config.heartbeat.intervalInSeconds
MsPerSecond == 1000     \* pulsetime * 1000, duration / 1000

\* Faulty variant: one retry more.
RetriesPlusOne == 2 + 2

Retries == 3            \* retry(..., { retries: 3, ... })

----------------------------------------------------------------------------
(* Values.                                                                 *)

\* A string is a sequence of one-character strings, so that trim() and the
\* blank tests are computed.  A URL is a sequence of lexical tokens.
Str(toks) == [isString |-> TRUE, toks |-> toks]
NotAString == [isString |-> FALSE, toks |-> <<>>]

\* email?: string -- "undefined" stands for the missing field.
Undefined == "undefined"
Falsy(s) == s = Undefined \/ s = ""

UrlA == Str(<<"http", ":", "//", "a.com", "/">>)
UrlB == Str(<<"HTTPS", ":", "//", "b.org", "/x">>)
UrlAbout == Str(<<"about", ":", "blank">>)
UrlFile == Str(<<"file", ":", "//", "", "/tmp/f">>)
UrlFtp == Str(<<"ftp", ":", "//", "f.net", "/">>)
UrlNoHost == Str(<<"http", ":", "//", "", "/">>)
UrlGarbage == Str(<<"not a url">>)
UrlEmpty == Str(<<>>)

SpecialSchemes == {"http", "https", "ftp", "ws", "wss", "file"}
OtherSchemes == {"about", "chrome", "mailto"}

\* URL parsing lower-cases the scheme.
Lower(s) ==
    CASE s = "HTTP" -> "http"
      [] s = "HTTPS" -> "https"
      [] s = "FTP" -> "ftp"
      [] OTHER -> s

----------------------------------------------------------------------------
(* cloud-sync.ts: parseUrl .. filterValidHeartbeats                        *)

\* new URL(url): [ok, protocol, hostname]; ok = FALSE is the TypeError.
NewURL(toks) ==
    IF Len(toks) < 2 \/ toks[2] # ":" THEN [ok |-> FALSE, protocol |-> "", hostname |-> ""]
    ELSE LET scheme == Lower(toks[1])
             hasAuth == Len(toks) >= 4 /\ toks[3] = "//"
             host == IF hasAuth THEN toks[4] ELSE ""
         IN  IF scheme \notin SpecialSchemes \cup OtherSchemes
                 THEN [ok |-> FALSE, protocol |-> "", hostname |-> ""]
             ELSE IF scheme \in SpecialSchemes \ {"file"} /\ host = ""
                 THEN [ok |-> FALSE, protocol |-> "", hostname |-> ""]
             ELSE [ok |-> TRUE, protocol |-> scheme, hostname |-> host]

parseUrl(toks) ==
    LET u == NewURL(toks)
    IN  IF u.ok THEN [scheme |-> u.protocol, host |-> u.hostname]
        ELSE [scheme |-> "", host |-> ""]

\* Faulty variant: the text keeps whole seconds only.
toISOStringSeconds(ms) == <<ms \div MsPerSecond, 0>>

\* Date.prototype.toISOString of a millisecond count: the seconds and the
\* three millisecond digits are separate parts of the text.
toISOString(ms) == <<ms \div MsPerSecond, ms % MsPerSecond>>
\* new Date(isoText).getTime()
NewDate(iso) == iso[1] * MsPerSecond + iso[2]

\* duration / 1000 as the exact quotient <<whole seconds, remaining ms>>
ToSeconds(ms) == <<ms \div MsPerSecond, ms % MsPerSecond>>

mapHeartbeat(heartbeat) ==
    LET url == heartbeat.data.url
        p == IF url.isString /\ url.toks # <<>>
                 THEN parseUrl(url.toks)
                 ELSE [scheme |-> "", host |-> ""]
    IN  [url |-> url,
         title |-> heartbeat.data.title,
         timestamp |-> toISOString(heartbeat.timestamp),
         duration |-> ToSeconds(heartbeat.duration),
         protocol |-> p.scheme,
         domain |-> p.host,
         email |-> heartbeat.email]

mapHeartbeatData(asHeartbeats) ==
    [k \in 1..Len(asHeartbeats) |-> mapHeartbeat(asHeartbeats[k])]

\* Faulty variant: any scheme that parsed is accepted and the host is not looked at.
isValidHeartbeatAnyScheme(heartbeat) == heartbeat.protocol # ""

\* Faulty variant: the scheme is not looked at.
isValidHeartbeatHostOnly(heartbeat) == heartbeat.domain # ""

isValidHeartbeat(heartbeat) ==
    LET isValidScheme == heartbeat.protocol = "http" \/ heartbeat.protocol = "https"
        hasValidHost == heartbeat.domain # ""
    IN  isValidScheme /\ hasValidHost

filterValidHeartbeats(mappedHeartbeats) ==
    SelectSeq(mappedHeartbeats, isValidHeartbeat)

----------------------------------------------------------------------------
(* storage.ts: the event buffer                                            *)

toStorageFormat(heartbeat) ==
    [heartbeat EXCEPT !.timestamp = toISOString(heartbeat.timestamp)]

fromStorageFormat(heartbeat) ==
    [heartbeat EXCEPT !.timestamp = NewDate(heartbeat.timestamp)]

MapSeq(s, Op(_)) == [k \in 1..Len(s) |-> Op(s[k])]

Max(a, b) == IF a >= b THEN a ELSE b

\* heartbeatMerge returns the merged heartbeat or null.
Null == [isNull |-> TRUE]
Some(h) == [isNull |-> FALSE, value |-> h]

\* Faulty variant: the end of the pulse window is excluded.
heartbeatMergeStrict(lastHeartbeat, newHeartbeat, pulsetime) ==
    IF lastHeartbeat.data.url # newHeartbeat.data.url THEN Null
    ELSE IF newHeartbeat.timestamp < lastHeartbeat.timestamp + lastHeartbeat.duration
                                         + pulsetime * MsPerSecond
        THEN Some([lastHeartbeat EXCEPT
                      !.duration = Max(lastHeartbeat.duration,
                                       newHeartbeat.timestamp - lastHeartbeat.timestamp),
                      !.email = IF Falsy(newHeartbeat.email) THEN lastHeartbeat.email
                                ELSE newHeartbeat.email])
        ELSE Null

\* Faulty variant: the url is not compared.
heartbeatMergeAnyUrl(lastHeartbeat, newHeartbeat, pulsetime) ==
    IF newHeartbeat.timestamp <= lastHeartbeat.timestamp + lastHeartbeat.duration
                                     + pulsetime * MsPerSecond
        THEN Some([lastHeartbeat EXCEPT
                      !.duration = Max(lastHeartbeat.duration,
                                       newHeartbeat.timestamp - lastHeartbeat.timestamp),
                      !.email = IF Falsy(newHeartbeat.email) THEN lastHeartbeat.email
                                ELSE newHeartbeat.email])
        ELSE Null

\* Faulty variant: the new duration replaces the old one (no Math.max).
heartbeatMergeNoMax(lastHeartbeat, newHeartbeat, pulsetime) ==
    IF lastHeartbeat.data.url # newHeartbeat.data.url THEN Null
    ELSE IF newHeartbeat.timestamp <= lastHeartbeat.timestamp + lastHeartbeat.duration
                                          + pulsetime * MsPerSecond
        THEN Some([lastHeartbeat EXCEPT
                      !.duration = newHeartbeat.timestamp - lastHeartbeat.timestamp,
                      !.email = IF Falsy(newHeartbeat.email) THEN lastHeartbeat.email
                                ELSE newHeartbeat.email])
        ELSE Null

\* Faulty variant: the merged heartbeat is spread from the new heartbeat.
heartbeatMergeTakesNewData(lastHeartbeat, newHeartbeat, pulsetime) ==
    IF lastHeartbeat.data.url # newHeartbeat.data.url THEN Null
    ELSE IF newHeartbeat.timestamp <= lastHeartbeat.timestamp + lastHeartbeat.duration
                                          + pulsetime * MsPerSecond
        THEN Some([newHeartbeat EXCEPT
                      !.timestamp = lastHeartbeat.timestamp,
                      !.duration = Max(lastHeartbeat.duration,
                                       newHeartbeat.timestamp - lastHeartbeat.timestamp),
                      !.email = IF Falsy(newHeartbeat.email) THEN lastHeartbeat.email
                                ELSE newHeartbeat.email])
        ELSE Null

heartbeatMerge(lastHeartbeat, newHeartbeat, pulsetime) ==
    IF lastHeartbeat.data.url # newHeartbeat.data.url THEN Null
    ELSE LET lastEndTime == lastHeartbeat.timestamp + lastHeartbeat.duration
                                + pulsetime * MsPerSecond
             withinPulseWindow == newHeartbeat.timestamp <= lastEndTime
         IN  IF withinPulseWindow
                 THEN LET newDuration == newHeartbeat.timestamp - lastHeartbeat.timestamp
                          extendedDuration == Max(lastHeartbeat.duration, newDuration)
                      IN  Some([lastHeartbeat EXCEPT
                                   !.duration = extendedDuration,
                                   !.email = IF Falsy(newHeartbeat.email)
                                                 THEN lastHeartbeat.email
                                                 ELSE newHeartbeat.email])
                 ELSE Null

\* The stored value of the key: absent, or the array last written.
NoValue == [isArray |-> FALSE, items |-> <<>>]
Stored(items) == [isArray |-> TRUE, items |-> items]

\* getASHeartbeats applied to the value the storage returns
getASHeartbeats(value) ==
    IF ~value.isArray THEN <<>> ELSE MapSeq(value.items, fromStorageFormat)

\* Faulty variant: a merge writes the merged heartbeat alone.
AddResultDropsFront(existingHeartbeats, heartbeat, pulsetime) ==
    IF Len(existingHeartbeats) = 0 THEN <<toStorageFormat(heartbeat)>>
    ELSE LET mergedHeartbeat ==
                 heartbeatMerge(existingHeartbeats[Len(existingHeartbeats)], heartbeat, pulsetime)
         IN  IF ~mergedHeartbeat.isNull
                 THEN <<toStorageFormat(mergedHeartbeat.value)>>
                 ELSE MapSeq(Append(existingHeartbeats, heartbeat), toStorageFormat)

\* What addASHeartbeat writes, from the heartbeats it read.
AddResult(existingHeartbeats, heartbeat, pulsetime) ==
    IF Len(existingHeartbeats) = 0 THEN <<toStorageFormat(heartbeat)>>
    ELSE LET lastHeartbeat == existingHeartbeats[Len(existingHeartbeats)]
             mergedHeartbeat == heartbeatMerge(lastHeartbeat, heartbeat, pulsetime)
         IN  IF ~mergedHeartbeat.isNull
                 THEN MapSeq(Append(SubSeq(existingHeartbeats, 1, Len(existingHeartbeats) - 1),
                                    mergedHeartbeat.value),
                             toStorageFormat)
                 ELSE MapSeq(Append(existingHeartbeats, heartbeat), toStorageFormat)

----------------------------------------------------------------------------
(* storage.ts: the managed-storage policies                                *)

Whitespace == {" ", "\t", "\n"}

RECURSIVE TrimStart(_)
TrimStart(chars) ==
    IF chars # <<>> /\ Head(chars) \in Whitespace THEN TrimStart(Tail(chars)) ELSE chars

RECURSIVE TrimEnd(_)
TrimEnd(chars) ==
    IF chars # <<>> /\ chars[Len(chars)] \in Whitespace
        THEN TrimEnd(SubSeq(chars, 1, Len(chars) - 1))
        ELSE chars

Trim(chars) == TrimEnd(TrimStart(chars))

\* A managed key is unset or holds a value; a read of managed storage
\* throws where managed storage does not exist.
Unset == [isSet |-> FALSE, value |-> <<>>]
Set(v) == [isSet |-> TRUE, value |-> v]

getCloudSyncPolicy(m) ==
    IF ~m.available THEN FALSE
    ELSE m.CLOUD_SYNC.isSet /\ m.CLOUD_SYNC.value = <<"true">>

getTagPolicy(m) ==
    IF ~m.available THEN <<>>
    ELSE IF m.TAG.isSet THEN m.TAG.value ELSE <<>>

getSubdomainPolicy(m) ==
    IF ~m.available THEN <<>>
    ELSE IF m.SUBDOMAIN.isSet THEN m.SUBDOMAIN.value ELSE <<>>

----------------------------------------------------------------------------
(* cloud-sync.ts: validateSyncPrerequisites, syncBatch, processInBatches   *)

NoConfig == [isNull |-> TRUE, tag |-> <<>>, subdomain |-> <<>>]

Blank(tag, subdomain) ==
    subdomain = <<>> \/ tag = <<>> \/ Trim(subdomain) = <<>> \/ Trim(tag) = <<>>

\* Faulty variant: the trim() tests are missing.
validateSyncPrerequisitesNoTrim(m) ==
    LET tag == getTagPolicy(m)
        subdomain == getSubdomainPolicy(m)
    IN  IF subdomain = <<>> \/ tag = <<>> THEN NoConfig
        ELSE [isNull |-> FALSE, tag |-> tag, subdomain |-> subdomain]

validateSyncPrerequisites(m) ==
    LET tag == getTagPolicy(m)
        subdomain == getSubdomainPolicy(m)
    IN  IF Blank(tag, subdomain) THEN NoConfig
        ELSE [isNull |-> FALSE, tag |-> tag, subdomain |-> subdomain]

\* The outcomes of one fetch: a success response, another response, a throw.
Responses == {"ok", "notok", "throw"}

\* Faulty variant: the try/catch around fetch is missing.
syncBatchThrows(config, response) ==
    [fetched |-> TRUE, success |-> response = "ok", thrown |-> response = "throw"]

\* syncBatch: [fetched, success, thrown].  With a blank config it returns
\* false without a fetch; a throw of fetch is caught and returns false.
syncBatch(config, response) ==
    IF Blank(config.tag, config.subdomain) THEN [fetched |-> FALSE, success |-> FALSE, thrown |-> FALSE]
    ELSE [fetched |-> TRUE, success |-> response = "ok", thrown |-> FALSE]

\* processInBatches(data, size, cb): cb on consecutive slices of size items.
NumBatches(data, size) == (Len(data) + size - 1) \div size

Batch(data, size, k) ==
    SubSeq(data, (k - 1) * size + 1, IF k * size < Len(data) THEN k * size ELSE Len(data))

\* Faulty variant: the last element stays.
clearASHeartbeatsLeavesTail ==
    Stored(IF store.items = <<>> THEN <<>> ELSE <<store.items[Len(store.items)]>>)

\* clearASHeartbeats(): storage.local.set({ asHeartbeats: [] })
clearASHeartbeats == Stored(<<>>)

\* Faulty variants: never clears; clears whatever the batches did; clears on failure.
clearHeartbeatsKeeps(success, value) == value
clearHeartbeatsAlways(success, value) == Stored(<<>>)
clearHeartbeatsInverted(success, value) == IF success THEN value ELSE Stored(<<>>)

\* clearHeartbeats(success): the value of the key afterwards
clearHeartbeats(success, value) == IF success THEN clearASHeartbeats ELSE value

----------------------------------------------------------------------------
(* State of the calls in flight.                                           *)

Listeners == {"alarm", "tab"}   \* heartbeatAlarmListener, tabActivatedListener

Heartbeat(ts, url, title, email) ==
    [timestamp |-> ts, duration |-> 0, data |-> [url |-> url, title |-> title], email |-> email]

NoHeartbeat == Heartbeat(0, UrlEmpty, "", Undefined)

\* retry(input, options) of p-retry: the attempts made, the calls of
\* onFailedAttempt, and whether the promise is pending, resolved or rejected.
NoRetry == [attempts |-> 0, hooks |-> 0, status |-> "pending"]

BoundedPolicy == [forever |-> FALSE, retries |-> Retries]   \* { retries: 3 }
ForeverPolicy == [forever |-> TRUE, retries |-> 0]          \* { forever: true }

\* One attempt of the wrapped call returned (ok) or failed: a failed attempt
\* calls onFailedAttempt and is retried while retries are left.
RetryAttempt(r, policy, ok) ==
    IF ok THEN [r EXCEPT !.attempts = @ + 1, !.status = "resolved"]
    ELSE [attempts |-> r.attempts + 1,
          hooks |-> r.hooks + 1,
          status |-> IF policy.forever \/ r.attempts < policy.retries
                         THEN "pending" ELSE "rejected"]

\* The JavaScript values undefined, true and false of a storage key.
JsBool(b) == IF b THEN "true" ELSE "false"
LocalInit == [enabled |-> Undefined, lastSyncSuccess |-> Undefined]

\* waitForKey: where the call is, the value its get returned, whether its
\* onChanged listener is registered, how often its promise was resolved, and
\* the newValues of the onChanged events not yet delivered to this script.
WaitIdle == [pc |-> "idle", value |-> Undefined, listening |-> FALSE, resolved |-> 0,
             changes |-> <<>>]

HbIdle == [pc |-> "idle", heartbeat |-> NoHeartbeat, pulsetime |-> 0,
           existingHeartbeats |-> <<>>, retry |-> NoRetry]

SyncIdle == [pc |-> "idle", config |-> NoConfig, asHeartbeats |-> <<>>, data |-> <<>>,
             next |-> 0, allBatchesSuccessful |-> TRUE, anyBatchAttempted |-> FALSE]

\* An addASHeartbeat call: its arguments, the length of the buffer it read
\* and the last element of that buffer.
NoAdd == [heartbeat |-> NoHeartbeat, pulsetime |-> 0, n |-> 0, tail |-> Null]
AddOf(call) ==
    [heartbeat |-> call.heartbeat, pulsetime |-> call.pulsetime,
     n |-> Len(call.existingHeartbeats),
     tail |-> IF call.existingHeartbeats = <<>> THEN Null
              ELSE Some(call.existingHeartbeats[Len(call.existingHeartbeats)])]

\* Direct calls of clearASHeartbeats: how many, how many of them in a row
\* with no sendHeartbeat call between, the number of calls when the last one
\* ran, and the most elements one of them removed.
NoClear == [n |-> 0, row |-> 0, atCalls |-> 0, removed |-> 0]

\* A storage operation that rejected: in whose call (a listener of
\* sendHeartbeat or "sync"), in which operation, and what the catch around
\* it did with the error.
NoFault == [n |-> 0, who |-> "none", op |-> "none", how |-> "none"]
Fault(who, op, how) == [n |-> hist.settle.n + 1, who |-> who, op |-> op, how |-> how]

\* The catch blocks around the storage operations.
sendHeartbeatCatch == "rejected"    \* return Promise.reject(err)
clearHeartbeatsCatch == "logged"    \* console.error, then clearHeartbeats returns
cloudSyncCatch == "logged"          \* console.error, then the listener returns

\* How the previous cycle ended and the records it handed to the transport.
NoCycle == [outcome |-> "none", data |-> <<>>]

\* A retried call that ended: whose it was and the state of its retry.
NoRetried == [who |-> "none", retry |-> NoRetry]

\* waitForKey: the key held the desired value at the read of the call or was
\* set to it afterwards; and the writes to storage.local by other scripts.
NoWaited == [due |-> FALSE, sets |-> 0]

HistInit ==
    [calls |-> 0,           \* sendHeartbeat calls so far
     alarms |-> 0,          \* alarms delivered to cloudSyncAlarmListener so far
     outcome |-> "none",    \* how the last sync cycle ended
     why |-> "none",        \* the branch of the listener that ended it
     acked |-> {},          \* records of batches answered ok in ended cycles
     flushed |-> {},        \* records of ended all-ok cycles not written since
     touched |-> FALSE,     \* addASHeartbeat wrote since the cycle's read
     epBase |-> <<>>,       \* buffer read by the first of the overlapping adds
     epCands |-> <<>>,      \* the overlapping adds, in the order of their reads
     epOk |-> TRUE,         \* no clear fell between their reads and writes
     lastAdd |-> NoAdd,     \* the addASHeartbeat call that wrote last
     clears |-> NoClear,    \* the direct calls of clearASHeartbeats
     settle |-> NoFault,    \* the last storage fault and where it ended
     prev |-> NoCycle,      \* the cycle before the running one
     lastRetry |-> NoRetried,   \* the retried call that ended last
     waited |-> NoWaited]   \* what the waitForKey call has to wake up for

Range(s) == {s[k] : k \in DOMAIN s}

----------------------------------------------------------------------------
(* heartbeat.ts: sendHeartbeat, and storage.ts: addASHeartbeat             *)

\* Faulty variant: the heartbeat goes to the server whatever the policy says.
sendHeartbeatAlwaysServer(i, heartbeat, pulsetime, limit) ==
    /\ hb[i].pc = "idle"
    /\ hist.calls < limit
    /\ hb' = [hb EXCEPT ![i] =
                 [pc |-> "server",
                  heartbeat |-> heartbeat, pulsetime |-> pulsetime,
                  existingHeartbeats |-> <<>>, retry |-> NoRetry]]
    /\ hist' = [hist EXCEPT !.calls = @ + 1]
    /\ UNCHANGED <<store, managed, sync, sent, local, wait>>

\* sendHeartbeat up to its branch on the CLOUD_SYNC policy (lines 160-173):
\* listener i calls it with a heartbeat of duration 0.
sendHeartbeat(i, heartbeat, pulsetime, limit) ==
    /\ hb[i].pc = "idle"
    /\ hist.calls < limit
    /\ hb' = [hb EXCEPT ![i] =
                 [pc |-> IF getCloudSyncPolicy(managed) THEN "add" ELSE "server",
                  heartbeat |-> heartbeat, pulsetime |-> pulsetime,
                  existingHeartbeats |-> <<>>, retry |-> NoRetry]]
    /\ hist' = [hist EXCEPT !.calls = @ + 1]
    /\ UNCHANGED <<store, managed, sync, sent, local, wait>>

\* addASHeartbeat: const existingHeartbeats = await getASHeartbeats()
AddRead(i) ==
    /\ hb[i].pc = "add"
    /\ hb' = [hb EXCEPT ![i].pc = "write",
                        ![i].existingHeartbeats = getASHeartbeats(store)]
    /\ hist' = IF \E j \in Listeners : hb[j].pc = "write"
                   THEN [hist EXCEPT !.epCands =
                            Append(@, [heartbeat |-> hb[i].heartbeat,
                                       pulsetime |-> hb[i].pulsetime])]
                   ELSE [hist EXCEPT !.epBase = getASHeartbeats(store),
                                     !.epCands = <<[heartbeat |-> hb[i].heartbeat,
                                                    pulsetime |-> hb[i].pulsetime]>>,
                                     !.epOk = TRUE]
    /\ UNCHANGED <<store, managed, sync, sent, local, wait>>

\* addASHeartbeat: browser.storage.local.set({ asHeartbeats: ... })
AddWrite(i) ==
    /\ hb[i].pc = "write"
    /\ store' = Stored(AddResult(hb[i].existingHeartbeats, hb[i].heartbeat, hb[i].pulsetime))
    /\ hb' = [hb EXCEPT ![i] = HbIdle]
    /\ hist' = [hist EXCEPT !.touched = TRUE,
                            !.lastAdd = AddOf(hb[i]),
                            !.flushed = @ \ Range(mapHeartbeatData(getASHeartbeats(store')))]
    /\ UNCHANGED <<managed, sync, sent, local, wait>>

\* addASHeartbeat: getASHeartbeats() rejects (storage.local.get failed); the
\* error leaves addASHeartbeat and reaches the catch of sendHeartbeat.
AddReadFails(i) ==
    /\ hb[i].pc = "add"
    /\ hist.settle.n < MaxFaults
    /\ hb' = [hb EXCEPT ![i] = HbIdle]
    /\ hist' = [hist EXCEPT !.settle = Fault(i, "read", sendHeartbeatCatch)]
    /\ UNCHANGED <<store, managed, sync, sent, local, wait>>

\* addASHeartbeat: storage.local.set rejects and nothing is written.
AddWriteFails(i) ==
    /\ hb[i].pc = "write"
    /\ hist.settle.n < MaxFaults
    /\ hb' = [hb EXCEPT ![i] = HbIdle]
    /\ hist' = [hist EXCEPT !.settle = Fault(i, "write", sendHeartbeatCatch)]
    /\ UNCHANGED <<store, managed, sync, sent, local, wait>>

\* sendHeartbeat with the policy disabled: the heartbeat goes to the
\* ActivityWatch server and the buffer is not used.  The retried call as one
\* step, for the specifications that look at the buffer.
ServerHeartbeat(i) ==
    /\ hb[i].pc = "server"
    /\ hb' = [hb EXCEPT ![i] = HbIdle]
    /\ \E ok \in BOOLEAN : local' = [local EXCEPT !.lastSyncSuccess = JsBool(ok)]
    /\ UNCHANGED <<store, managed, sync, sent, hist, wait>>

\* The calls that go through retry: sendHeartbeat of a listener,
\* detectHostname and ensureBucket.
RetryCallers == Listeners \cup {"hostname", "bucket"}

\* A retried call takes its next attempt, or ends.
Retried(i, r) ==
    IF r.status = "pending"
        THEN /\ hb' = [hb EXCEPT ![i].retry = r]
             /\ UNCHANGED hist
        ELSE /\ hb' = [hb EXCEPT ![i] = HbIdle]
             /\ hist' = [hist EXCEPT !.lastRetry = [who |-> i, retry |-> r]]

\* sendHeartbeat, lines 190-224: one attempt of client.heartbeat.  The hook
\* of a failed attempt starts ensureBucket and does not wait for it; when
\* the retry has ended, setSyncStatus writes how it ended.
ServerAttempt(i, ok) ==
    /\ hb[i].pc = "server"
    /\ LET r == RetryAttempt(hb[i].retry, BoundedPolicy, ok)
           started == IF ~ok /\ hb["bucket"].pc = "idle"
                          THEN [hb EXCEPT !["bucket"].pc = "bucket"]
                          ELSE hb
       IN  IF r.status = "pending"
               THEN /\ hb' = [started EXCEPT ![i].retry = r]
                    /\ UNCHANGED <<hist, local>>
               ELSE /\ hb' = [started EXCEPT ![i] = HbIdle]
                    /\ local' = [local EXCEPT
                                    !.lastSyncSuccess = JsBool(r.status = "resolved")]
                    /\ hist' = [hist EXCEPT !.lastRetry = [who |-> i, retry |-> r]]
    /\ UNCHANGED <<store, managed, sync, sent, wait>>

\* detectHostname, lines 127-134: nothing is asked when the policy is on.
DetectHostname(limit) ==
    /\ hb["hostname"].pc = "idle"
    /\ hist.calls < limit
    /\ hb' = [hb EXCEPT !["hostname"].pc =
                 IF getCloudSyncPolicy(managed) THEN "idle" ELSE "info"]
    /\ hist' = [hist EXCEPT !.calls = @ + 1]
    /\ UNCHANGED <<store, managed, sync, sent, local, wait>>

\* detectHostname, lines 135-157: one attempt of client.getInfo.
InfoAttempt(ok) ==
    /\ hb["hostname"].pc = "info"
    /\ Retried("hostname", RetryAttempt(hb["hostname"].retry, BoundedPolicy, ok))
    /\ UNCHANGED <<store, managed, sync, sent, local, wait>>

\* ensureBucket, lines 109-125: one attempt of client.ensureBucket; the
\* failed attempts of a run are cut off at MaxAttempts.
BucketAttempt(ok) ==
    /\ hb["bucket"].pc = "bucket"
    /\ ok \/ hb["bucket"].retry.attempts + 1 < MaxAttempts
    /\ Retried("bucket", RetryAttempt(hb["bucket"].retry, ForeverPolicy, ok))
    /\ UNCHANGED <<store, managed, sync, sent, local, wait>>

\* clearASHeartbeats called on its own, between two addASHeartbeat calls.
ClearCall ==
    /\ hist.clears.n < MaxClears
    /\ \A i \in Listeners : hb[i].pc = "idle"
    /\ store' = clearASHeartbeats
    /\ hist' = [hist EXCEPT !.clears =
                    [n |-> @.n + 1,
                     row |-> IF @.n > 0 /\ @.atCalls = hist.calls THEN @.row + 1 ELSE 1,
                     atCalls |-> hist.calls,
                     removed |-> Max(@.removed, Len(getASHeartbeats(store)))]]
    /\ UNCHANGED <<managed, hb, sync, sent, local, wait>>

----------------------------------------------------------------------------
(* storage.ts: watchKey, waitForKey, waitForEnabled                        *)

\* waitForEnabled() == waitForKey('enabled', true): the get is sent.
WaitForEnabled ==
    /\ wait.pc = "idle"
    /\ wait' = [wait EXCEPT !.pc = "get"]
    /\ UNCHANGED <<store, managed, hb, sync, sent, local, hist>>

\* browser.storage.local.get(key) reads the key.
WaitGet ==
    /\ wait.pc = "get"
    /\ wait' = [wait EXCEPT !.pc = "got", !.value = local.enabled]
    /\ hist' = [hist EXCEPT !.waited.due = (local.enabled = "true")]
    /\ UNCHANGED <<store, managed, hb, sync, sent, local>>

\* waitForKey goes on behind its await: the value is compared, and if it is
\* not the desired one, watchKey adds the onChanged listener.
WaitResume ==
    /\ wait.pc = "got"
    /\ wait' = IF wait.value = "true"
                   THEN [wait EXCEPT !.pc = "done", !.resolved = @ + 1]
                   ELSE [wait EXCEPT !.pc = "listen", !.listening = TRUE]
    /\ UNCHANGED <<store, managed, hb, sync, sent, local, hist>>

\* Another script of the extension calls setEnabled(v) or setSyncStatus(v):
\* the key is written and onChanged is sent out; a write that leaves the
\* value as it was may send no event.
SetKey(key, v, fires) ==
    /\ hist.waited.sets < MaxSets
    /\ v # local[key] => fires
    /\ local' = [local EXCEPT ![key] = v]
    /\ wait' = IF fires
                   THEN [wait EXCEPT !.changes = Append(@, [key |-> key, newValue |-> v])]
                   ELSE wait
    /\ hist' = [hist EXCEPT
                    !.waited.sets = @ + 1,
                    !.waited.due = @ \/ (key = "enabled" /\ v = "true"
                                          /\ wait.pc \in {"got", "listen"})]
    /\ UNCHANGED <<store, managed, hb, sync, sent>>

\* The next onChanged event reaches this script and is given to the
\* listeners registered now: the listener of watchKey looks for its key,
\* the callback of waitForKey for the desired value; then resolve() and
\* unsubscribe().
DeliverChange ==
    /\ wait.changes # <<>>
    /\ LET change == Head(wait.changes)
       IN  wait' = IF wait.listening /\ change.key = "enabled" /\ change.newValue = "true"
                       THEN [wait EXCEPT !.changes = Tail(@), !.pc = "done",
                                         !.resolved = @ + 1, !.listening = FALSE]
                       ELSE [wait EXCEPT !.changes = Tail(@)]
    /\ UNCHANGED <<store, managed, hb, sync, sent, local, hist>>

----------------------------------------------------------------------------
(* cloud-sync.ts: cloudSyncAlarmListener                                   *)

AlarmNames == {"cloudSync", "heartbeat", "blockedDomains"}

\* The history variable when a cycle ends.
EndHist(outcome, why) ==
    [hist EXCEPT
        !.outcome = outcome,
        !.why = why,
        !.acked = @ \cup UNION {Range(sent[k].batch) :
                                    k \in {n \in DOMAIN sent : sent[n].success}},
        !.flushed = IF outcome = "Cleared"
                        THEN @ \cup UNION {Range(sent[k].batch) : k \in DOMAIN sent}
                        ELSE @,
        !.epOk = IF outcome = "Cleared" /\ \E j \in Listeners : hb[j].pc = "write"
                     THEN FALSE ELSE @]

EndCycle(outcome, why) ==
    /\ sync' = SyncIdle
    /\ hist' = EndHist(outcome, why)

\* Lines 132-139: the alarm arrives; await getCloudSyncPolicy().
\* base is the history variable the alarm is counted in.
AlarmBody(name, base) ==
    /\ sync.pc = "idle"
    /\ IF name # "cloudSync"
           THEN /\ hist' = [base EXCEPT !.alarms = @ + 1]
                /\ UNCHANGED <<sync, sent>>
       ELSE IF ~getCloudSyncPolicy(managed)
           THEN /\ sent' = <<>>
                /\ sync' = SyncIdle
                /\ hist' = [base EXCEPT !.alarms = @ + 1, !.outcome = "Skipped",
                                        !.why = "disabled"]
       ELSE /\ sent' = <<>>
            /\ sync' = [SyncIdle EXCEPT !.pc = "prereq"]
            /\ hist' = [base EXCEPT !.alarms = @ + 1, !.outcome = "running"]
    /\ UNCHANGED <<store, managed, hb, local, wait>>

SyncAlarm(name) ==
    /\ hist.alarms < MaxCycles
    /\ AlarmBody(name, hist)

\* The records of the batches handed to the transport in this cycle, in the
\* order of the sends.
RECURSIVE SentRecords(_)
SentRecords(log) ==
    IF log = <<>> THEN <<>>
    ELSE SentRecords(SubSeq(log, 1, Len(log) - 1)) \o log[Len(log)].batch

\* The periodic cloudSync alarm, any number of times; the alarms are not
\* counted and the cycle before is remembered.
SyncAlarmLive ==
    AlarmBody("cloudSync",
              [hist EXCEPT !.alarms = 0,
                           !.prev = [outcome |-> hist.outcome, data |-> SentRecords(sent)]])

\* Lines 142-143: await validateSyncPrerequisites()
SyncPrereq ==
    /\ sync.pc = "prereq"
    /\ LET syncConfig == validateSyncPrerequisites(managed)
       IN  IF syncConfig.isNull
               THEN EndCycle("Skipped", "prerequisites")
               ELSE /\ sync' = [sync EXCEPT !.pc = "read", !.config = syncConfig]
                    /\ UNCHANGED hist
    /\ UNCHANGED <<store, managed, hb, sent, local, wait>>

\* Lines 145-162: await getASHeartbeats(), map, filter, start of the batches
SyncRead ==
    /\ sync.pc = "read"
    /\ LET asHeartbeats == getASHeartbeats(store)
           data == filterValidHeartbeats(mapHeartbeatData(asHeartbeats))
       IN  IF Len(asHeartbeats) = 0
               THEN EndCycle("Skipped", "no data")
           ELSE IF Len(data) = 0
               THEN EndCycle("Skipped", "no valid data")
               ELSE /\ sync' = [sync EXCEPT !.pc = "send", !.asHeartbeats = asHeartbeats,
                                            !.data = data, !.next = 1,
                                            !.allBatchesSuccessful = TRUE,
                                            !.anyBatchAttempted = FALSE]
                    /\ hist' = [hist EXCEPT !.touched = FALSE]
    /\ UNCHANGED <<store, managed, hb, sent, local, wait>>

\* Lines 164-168: the callback of processInBatches on the next batch, with
\* the outcome of its fetch.
SyncSend(response) ==
    /\ sync.pc = "send"
    /\ LET batch == Batch(sync.data, BatchSize, sync.next)
           r == syncBatch(sync.config, response)
           last == sync.next >= NumBatches(sync.data, BatchSize)
       IN  /\ sent' = IF r.fetched
                          THEN Append(sent, [batch |-> batch, success |-> r.success])
                          ELSE sent
           /\ IF r.thrown
                  THEN EndCycle("Failed", "catch")     \* lines 178-180: the outer catch
                  ELSE /\ sync' = [sync EXCEPT
                                      !.pc = IF last THEN "post" ELSE "send",
                                      !.next = @ + 1,
                                      !.anyBatchAttempted = TRUE,
                                      !.allBatchesSuccessful = @ /\ r.success]
                       /\ UNCHANGED hist
    /\ UNCHANGED <<store, managed, hb, local, wait>>

\* Lines 170-177: clear on full success, keep otherwise.
SyncPost ==
    /\ sync.pc = "post"
    /\ IF sync.anyBatchAttempted
           THEN /\ store' = clearHeartbeats(sync.allBatchesSuccessful, store)
                /\ EndCycle(IF sync.allBatchesSuccessful THEN "Cleared" ELSE "PartialFailure",
                            "batches")
           ELSE /\ store' = store
                /\ EndCycle("Skipped", "not attempted")
    /\ UNCHANGED <<managed, hb, sent, local, wait>>

\* Line 145: getASHeartbeats() rejects; the outer catch (lines 178-180)
\* logs the error and the listener returns.
SyncReadFails ==
    /\ sync.pc = "read"
    /\ hist.settle.n < MaxFaults
    /\ sync' = SyncIdle
    /\ hist' = [EndHist("Failed", "catch") EXCEPT !.settle = Fault("sync", "read", cloudSyncCatch)]
    /\ UNCHANGED <<store, managed, hb, sent, local, wait>>

\* Lines 171-177 and 55-59: every batch was answered ok and clearASHeartbeats()
\* rejects; clearHeartbeats logs the error and the listener goes on to its end.
SyncClearFails ==
    /\ sync.pc = "post"
    /\ sync.anyBatchAttempted /\ sync.allBatchesSuccessful
    /\ hist.settle.n < MaxFaults
    /\ sync' = SyncIdle
    /\ hist' = [EndHist("ClearFailed", "batches") EXCEPT
                    !.settle = Fault("sync", "clear", clearHeartbeatsCatch)]
    /\ UNCHANGED <<store, managed, hb, sent, local, wait>>

----------------------------------------------------------------------------
(* Inputs.                                                                 *)

Policy(cloudSync, tag, subdomain) ==
    [available |-> TRUE, CLOUD_SYNC |-> cloudSync, TAG |-> tag, SUBDOMAIN |-> subdomain]

On == Set(<<"true">>)
Off == Set(<<"false">>)
GoodTag == Set(<<"t", "1">>)
GoodSubdomain == Set(<<"s", "1">>)
SyncPolicy == Policy(On, GoodTag, GoodSubdomain)

\* Managed storage as the administrator may have left it.
Policies ==
    { SyncPolicy,
      Policy(On, Set(<<" ", "t", " ">>), GoodSubdomain),
      Policy(Off, GoodTag, GoodSubdomain),
      Policy(Unset, GoodTag, GoodSubdomain),
      [SyncPolicy EXCEPT !.available = FALSE],
      Policy(On, Unset, GoodSubdomain),
      Policy(On, Set(<<>>), GoodSubdomain),
      Policy(On, Set(<<" ", "\t">>), GoodSubdomain),
      Policy(On, GoodTag, Unset),
      Policy(On, GoodTag, Set(<<>>)),
      Policy(On, GoodTag, Set(<<"\n", " ">>)),
      Policy(On, Unset, Unset) }

\* heartbeat() passes config.heartbeat.intervalInSeconds + 20.
HeartbeatPulsetime == HeartbeatInterval + 20

SpecHeartbeats ==
    { Heartbeat(ts, url, "t", Undefined) :
          ts \in {1000, 61000}, url \in {UrlA, UrlAbout, UrlGarbage} }

\* The large persisted buffer: one event every five minutes, none mergeable
\* with its neighbour, every fortieth with a locator the filter rejects.
BigEvent(k) ==
    toStorageFormat(
        [Heartbeat(300000 * k,
                   IF k % 40 = 0 THEN UrlAbout ELSE IF k % 2 = 0 THEN UrlA ELSE UrlB,
                   "t", Undefined)
            EXCEPT !.duration = 1500])

BigStore == Stored([k \in 1..BigLen |-> BigEvent(k)])

BigHeartbeats ==
    { Heartbeat(300000 * BigLen + 1000, UrlA, "t", Undefined),
      Heartbeat(300000 * (BigLen + 1), UrlB, "t", Undefined) }

----------------------------------------------------------------------------
(* Specifications.                                                         *)

Init ==
    /\ store = NoValue
    /\ managed \in Policies
    /\ hb = [i \in Listeners |-> HbIdle]
    /\ sync = SyncIdle
    /\ sent = <<>>
    /\ local = LocalInit
    /\ wait = WaitIdle
    /\ hist = HistInit

Sync ==
    \/ \E name \in AlarmNames : SyncAlarm(name)
    \/ SyncPrereq
    \/ SyncRead
    \/ \E response \in Responses : SyncSend(response)
    \/ SyncPost

Next ==
    \/ \E i \in Listeners, h \in SpecHeartbeats :
           sendHeartbeat(i, h, HeartbeatPulsetime, MaxCalls)
    \/ \E i \in Listeners : AddRead(i)
    \/ \E i \in Listeners : AddWrite(i)
    \/ \E i \in Listeners : ServerHeartbeat(i)
    \/ Sync

Spec == Init /\ [][Next]_vars

\* The same program started on the large buffer a previous run left behind.
InitBatch ==
    /\ store = BigStore
    /\ managed = SyncPolicy
    /\ hb = [i \in Listeners |-> HbIdle]
    /\ sync = SyncIdle
    /\ sent = <<>>
    /\ local = LocalInit
    /\ wait = WaitIdle
    /\ hist = HistInit

NextBatch ==
    \/ \E i \in Listeners, h \in BigHeartbeats :
           sendHeartbeat(i, h, HeartbeatPulsetime, BigCalls)
    \/ \E i \in Listeners : AddRead(i)
    \/ \E i \in Listeners : AddWrite(i)
    \/ Sync

SpecBatch == InitBatch /\ [][NextBatch]_vars

\* addASHeartbeat alone, called by one listener at a time, on the buffers a
\* previous run may have left and with any heartbeat and pulsetime.
RichPulsetimes == {-1, 0, 1}

RichHeartbeats ==
    { Heartbeat(ts, url, p[1], p[2]) :
          ts \in {0, 1000, 1001, 2000, 2001},
          url \in {UrlA, UrlB},
          p \in {<<"t", Undefined>>, <<"t2", "e2">>, <<"t", "">>} }

RichTails ==
    { [Heartbeat(1000, url, "t", email) EXCEPT !.duration = d] :
          url \in {UrlA, UrlB}, email \in {Undefined, "e1"}, d \in {0, 1, 1000} }

RichPrefixes == { <<>>, <<[Heartbeat(0, UrlB, "t0", "e0") EXCEPT !.duration = 500]>> }

RichStores ==
    {NoValue, Stored(<<>>)} \cup
    { Stored(MapSeq(Append(pre, tail), toStorageFormat)) :
          pre \in RichPrefixes, tail \in RichTails }

InitAdd ==
    /\ store \in RichStores
    /\ managed = SyncPolicy
    /\ hb = [i \in Listeners |-> HbIdle]
    /\ sync = SyncIdle
    /\ sent = <<>>
    /\ local = LocalInit
    /\ wait = WaitIdle
    /\ hist = HistInit

NextAdd ==
    \/ \E h \in RichHeartbeats, p \in RichPulsetimes :
           sendHeartbeat("alarm", h, p, RichCalls)
    \/ AddRead("alarm")
    \/ AddWrite("alarm")

SpecAdd == InitAdd /\ [][NextAdd]_vars

\* The program with the policy on and a storage area that may reject.
InitFault ==
    /\ store \in {NoValue, Stored(<<toStorageFormat(Heartbeat(1000, UrlA, "t", Undefined))>>)}
    /\ managed = SyncPolicy
    /\ hb = [i \in Listeners |-> HbIdle]
    /\ sync = SyncIdle
    /\ sent = <<>>
    /\ local = LocalInit
    /\ wait = WaitIdle
    /\ hist = HistInit

NextFault ==
    \/ \E i \in Listeners, h \in SpecHeartbeats :
           sendHeartbeat(i, h, HeartbeatPulsetime, BigCalls)
    \/ \E i \in Listeners : AddRead(i)
    \/ \E i \in Listeners : AddWrite(i)
    \/ \E i \in Listeners : AddReadFails(i)
    \/ \E i \in Listeners : AddWriteFails(i)
    \/ Sync
    \/ SyncReadFails
    \/ SyncClearFails

SpecFault == InitFault /\ [][NextFault]_vars

\* The sync cycle alone, alarm after alarm, on the buffers a previous run may
\* have left.  The alarm is periodic and every await of the listener
\* returns, so each step of the cycle that can be taken is taken.
InitLive ==
    /\ store \in RichStores
    /\ managed = SyncPolicy
    /\ hb = [i \in Listeners |-> HbIdle]
    /\ sync = SyncIdle
    /\ sent = <<>>
    /\ local = LocalInit
    /\ wait = WaitIdle
    /\ hist = HistInit

NextLive ==
    \/ SyncAlarmLive
    \/ SyncPrereq
    \/ SyncRead
    \/ \E response \in Responses : SyncSend(response)
    \/ SyncPost

LiveFairness ==
    /\ WF_vars(SyncAlarmLive)
    /\ WF_vars(SyncPrereq)
    /\ WF_vars(SyncRead)
    /\ WF_vars(\E response \in Responses : SyncSend(response))
    /\ WF_vars(SyncPost)

SpecLive == InitLive /\ [][NextLive]_vars /\ LiveFairness

\* The calls to the ActivityWatch server with the policy off or not set.
InitRetry ==
    /\ store = NoValue
    /\ managed \in {Policy(Off, GoodTag, GoodSubdomain), Policy(Unset, GoodTag, GoodSubdomain)}
    /\ hb = [i \in RetryCallers |-> HbIdle]
    /\ sync = SyncIdle
    /\ sent = <<>>
    /\ local = LocalInit
    /\ wait = WaitIdle
    /\ hist = HistInit

NextRetry ==
    \/ \E i \in Listeners, h \in SpecHeartbeats :
           sendHeartbeat(i, h, HeartbeatPulsetime, RetryCalls)
    \/ \E i \in Listeners, ok \in BOOLEAN : ServerAttempt(i, ok)
    \/ DetectHostname(RetryCalls)
    \/ \E ok \in BOOLEAN : InfoAttempt(ok)
    \/ \E ok \in BOOLEAN : BucketAttempt(ok)

SpecRetry == InitRetry /\ [][NextRetry]_vars

\* sendHeartbeat called by one listener, one call after the other, from the
\* empty buffer, with timestamps that never go back (the clock of heartbeat(),
\* which stores the previous data at now - 1 and the new data at now).
SeqTimes == {1000, 1999, 2000, 82000, 82001}
SeqPulsetimes == {0, HeartbeatPulsetime}

SeqHeartbeat(heartbeat, pulsetime) ==
    /\ heartbeat.timestamp >= hist.lastAdd.heartbeat.timestamp
    /\ sendHeartbeat("alarm", heartbeat, pulsetime, SeqCalls)

InitSeq ==
    /\ store \in {NoValue, Stored(<<>>)}
    /\ managed = SyncPolicy
    /\ hb = [i \in Listeners |-> HbIdle]
    /\ sync = SyncIdle
    /\ sent = <<>>
    /\ local = LocalInit
    /\ wait = WaitIdle
    /\ hist = HistInit

NextSeq ==
    \/ \E ts \in SeqTimes, url \in {UrlA, UrlB}, p \in SeqPulsetimes :
           SeqHeartbeat(Heartbeat(ts, url, "t", Undefined), p)
    \/ AddRead("alarm")
    \/ AddWrite("alarm")

SpecSeq == InitSeq /\ [][NextSeq]_vars

\* sendHeartbeat of both listeners under every policy, with the calls to the
\* server attempt by attempt.
PathPolicies ==
    { SyncPolicy,
      Policy(On, Unset, GoodSubdomain),
      Policy(Off, GoodTag, GoodSubdomain),
      Policy(Unset, GoodTag, GoodSubdomain),
      [SyncPolicy EXCEPT !.available = FALSE] }

InitPaths ==
    /\ store \in {NoValue, Stored(<<toStorageFormat(Heartbeat(1000, UrlA, "t", Undefined))>>)}
    /\ managed \in PathPolicies
    /\ hb = [i \in RetryCallers |-> HbIdle]
    /\ sync = SyncIdle
    /\ sent = <<>>
    /\ local = LocalInit
    /\ wait = WaitIdle
    /\ hist = HistInit

PathHeartbeats ==
    {Heartbeat(1000, UrlA, "t", Undefined), Heartbeat(61000, UrlB, "t", Undefined)}

NextPaths ==
    \/ \E i \in Listeners, h \in PathHeartbeats :
           sendHeartbeat(i, h, HeartbeatPulsetime, RetryCalls)
    \/ \E i \in Listeners : AddRead(i)
    \/ \E i \in Listeners : AddWrite(i)
    \/ \E i \in Listeners, ok \in BOOLEAN : ServerAttempt(i, ok)
    \/ \E ok \in BOOLEAN : BucketAttempt(ok)

SpecPaths == InitPaths /\ [][NextPaths]_vars

\* waitForEnabled while other scripts write to storage.local.
InitWait ==
    /\ store = NoValue
    /\ managed = SyncPolicy
    /\ hb = [i \in Listeners |-> HbIdle]
    /\ sync = SyncIdle
    /\ sent = <<>>
    /\ local \in [enabled : {Undefined, "true", "false"}, lastSyncSuccess : {Undefined}]
    /\ wait = WaitIdle
    /\ hist = HistInit

NextWait ==
    \/ WaitForEnabled
    \/ WaitGet
    \/ WaitResume
    \/ \E key \in {"enabled", "lastSyncSuccess"}, b \in BOOLEAN, fires \in BOOLEAN :
           SetKey(key, JsBool(b), fires)
    \/ DeliverChange

SpecWait == InitWait /\ [][NextWait]_vars

\* addASHeartbeat and clearASHeartbeats, one call at a time.
NextClear ==
    \/ NextAdd
    \/ ClearCall

SpecClear == InitAdd /\ [][NextClear]_vars

\* The sync cycle alone on every short buffer over every kind of locator.
FilterUrls ==
    {UrlA, UrlB, UrlAbout, UrlFile, UrlFtp, UrlNoHost, UrlGarbage, UrlEmpty, NotAString}

FilterStores ==
    { Stored([k \in DOMAIN urls |->
                 toStorageFormat(Heartbeat(MsPerSecond * k, urls[k], "t", Undefined))]) :
          urls \in UNION { [1..n -> FilterUrls] : n \in 0..MaxFilterLen } }

InitFilter ==
    /\ store \in FilterStores
    /\ managed = SyncPolicy
    /\ hb = [i \in Listeners |-> HbIdle]
    /\ sync = SyncIdle
    /\ sent = <<>>
    /\ local = LocalInit
    /\ wait = WaitIdle
    /\ hist = HistInit

SpecFilter == InitFilter /\ [][Sync]_vars

----------------------------------------------------------------------------
(* Vocabulary of the properties.                                           *)

\* A step of the sync listener / a step that ends a cycle it started.
SyncStep == sync' # sync \/ hist'.alarms # hist.alarms
CycleEnds == sync.pc # "idle" /\ sync'.pc = "idle"
SendStep == Len(sent') = Len(sent) + 1
AddWriteStep == \E i \in Listeners : hb[i].pc = "write" /\ hb'[i].pc = "idle"

AllOk(log) == \A k \in DOMAIN log : log[k].success

\* The buffer after two adds run one after the other.
AddOne(buffer, c) == getASHeartbeats(Stored(AddResult(buffer, c.heartbeat, c.pulsetime)))
Serial(buffer, c1, c2) == AddOne(AddOne(buffer, c1), c2)

\* The policy as the administrator sees it: off, or a blank identifier.
AllWhitespace(chars) == \A k \in DOMAIN chars : chars[k] \in Whitespace
Missing(key) == ~key.isSet \/ AllWhitespace(key.value)
PolicyUnsatisfied(m) ==
    \/ ~m.available
    \/ m.CLOUD_SYNC # On
    \/ Missing(m.TAG)
    \/ Missing(m.SUBDOMAIN)

\* Locators the transport cannot take, by kind.
RejectedUrls == {UrlAbout, UrlFile, UrlFtp, UrlNoHost, UrlGarbage, UrlEmpty, NotAString}
AllRejected(asHeartbeats) ==
    \A k \in DOMAIN asHeartbeats : asHeartbeats[k].data.url \in RejectedUrls

\* The buffer a cycle works on: the one it read, or reads in this step.
CycleBuffer ==
    IF sync.pc \in {"send", "post"} THEN sync.asHeartbeats ELSE getASHeartbeats(store)

----------------------------------------------------------------------------
(* C1: when the addASHeartbeat calls of the two listeners overlap, the     *)
(* buffer after both have written is the buffer that running the two one   *)
(* after the other, in one of the two orders, gives.                       *)
C1_OverlappingAddsSerialize ==
    [][(/\ AddWriteStep
        /\ \A j \in Listeners : hb'[j].pc # "write"
        /\ Len(hist.epCands) = 2
        /\ hist.epOk)
       => getASHeartbeats(store') \in
              { Serial(hist.epBase, hist.epCands[1], hist.epCands[2]),
                Serial(hist.epBase, hist.epCands[2], hist.epCands[1]) }]_vars

(* C2: what the clear of a sync cycle removes is what the cycle read: a    *)
(* heartbeat added, or a duration extended, after the read of the cycle    *)
(* is not removed by its clear.                                            *)
C2_ClearRemovesOnlySnapshot ==
    [][(sync.pc = "post" /\ hist'.outcome = "Cleared")
       => getASHeartbeats(store) = sync.asHeartbeats]_vars

C4_PartialFailureKeepsBuffer ==
    [][(CycleEnds /\ ~AllOk(sent'))
       => /\ hist'.outcome = "PartialFailure"
          /\ ~hist.touched => getASHeartbeats(store') = sync.asHeartbeats]_vars

C4_Witness ==
    /\ hist.outcome = "PartialFailure"
    /\ Len(sent) = 2
    /\ sent[1].success
    /\ ~sent[2].success
    /\ ~hist.touched
    /\ Len(getASHeartbeats(store)) = BigLen

C6_UnsatisfiedPolicySkips ==
    [][(PolicyUnsatisfied(managed) /\ SyncStep)
       => /\ store' = store
          /\ sent' = <<>>
          /\ sync'.pc \in {"idle", "prereq"}
          /\ hist'.outcome \in {"none", "running", "Skipped"}
          /\ (CycleEnds => hist'.outcome = "Skipped")]_vars

C6_Witness ==
    /\ managed.CLOUD_SYNC = On
    /\ managed.TAG = Set(<<" ", "\t">>)
    /\ Len(getASHeartbeats(store)) = 2
    /\ hist.outcome = "Skipped"
    /\ hist.why = "prerequisites"

(* C7: a cycle that reads a buffer whose events are all rejected by the    *)
(* filter gets an empty filtered sequence, sends nothing, leaves the       *)
(* buffer as it is and ends as Skipped; so does every later cycle.         *)
C7_AllRejectedSkips ==
    [][(/\ sync.pc = "read"
        /\ sync' # sync
        /\ getASHeartbeats(store) # <<>>
        /\ AllRejected(getASHeartbeats(store)))
       => /\ filterValidHeartbeats(mapHeartbeatData(getASHeartbeats(store))) = <<>>
          /\ store' = store
          /\ sent' = <<>>
          /\ sync'.pc = "idle"
          /\ hist'.outcome = "Skipped"]_vars

C7_Witness ==
    /\ hist.alarms = 2
    /\ hist.outcome = "Skipped"
    /\ hist.why = "no valid data"
    /\ Len(getASHeartbeats(store)) = 2
    /\ AllRejected(getASHeartbeats(store))

(* C8: in a cycle the batches are sent once each, in array order: a send   *)
(* is of the batch after the ones sent, a failed batch does not end the    *)
(* cycle, and the loop is left when every batch has been sent.             *)
C8_EveryBatchOnceInOrder ==
    [][/\ sync.pc = "send"
          => /\ sync'.pc \in {"send", "post"}
             /\ sync' # sync
                => /\ SendStep
                   /\ SubSeq(sent', 1, Len(sent)) = sent
                   /\ sent'[Len(sent')].batch = Batch(sync.data, BatchSize, Len(sent'))
             /\ sync'.pc = "post" => Len(sent') = NumBatches(sync.data, BatchSize)
       /\ sync.pc # "send" => (sent' = sent \/ sent' = <<>>)]_vars

C8_Witness ==
    /\ sync.pc = "post"
    /\ Len(sent) = 2
    /\ ~sent[1].success
    /\ sent[2].success

\* The end of the pulse window of a last event, in milliseconds.
WindowEnd(last, pulsetime) == last.timestamp + last.duration + pulsetime * MsPerSecond

Front(q) == SubSeq(q, 1, Len(q) - 1)
Last(q) == q[Len(q)]

C10_OtherUrlAppends ==
    [][\A i \in Listeners :
          (/\ hb[i].pc = "write" /\ hb'[i].pc = "idle"
           /\ hb[i].existingHeartbeats # <<>>
           /\ Last(hb[i].existingHeartbeats).data.url # hb[i].heartbeat.data.url)
          => getASHeartbeats(store') = Append(hb[i].existingHeartbeats, hb[i].heartbeat)]_vars

C10_Witness ==
    /\ ~hist.lastAdd.tail.isNull
    /\ hist.lastAdd.tail.value.data.url # hist.lastAdd.heartbeat.data.url
    /\ hist.lastAdd.heartbeat.timestamp < hist.lastAdd.tail.value.timestamp
    /\ hist.lastAdd.n = 2
    /\ Len(getASHeartbeats(store)) = 3

\* The write of an addASHeartbeat call of listener i, and what it did.
Merged(i) ==
    /\ hb[i].existingHeartbeats # <<>>
    /\ Last(hb[i].existingHeartbeats).data.url = hb[i].heartbeat.data.url
    /\ hb[i].heartbeat.timestamp
           <= WindowEnd(Last(hb[i].existingHeartbeats), hb[i].pulsetime)

LastAddMerged ==
    /\ ~hist.lastAdd.tail.isNull
    /\ hist.lastAdd.tail.value.data.url = hist.lastAdd.heartbeat.data.url
    /\ hist.lastAdd.heartbeat.timestamp
           <= WindowEnd(hist.lastAdd.tail.value, hist.lastAdd.pulsetime)

(* C11: an addASHeartbeat that is merged into the tail leaves the tail's   *)
(* duration at least what it was, also for a candidate whose timestamp     *)
(* lies before the point the tail covers or before the tail's timestamp.   *)
C11_DurationNeverShrinks ==
    [][\A i \in Listeners :
          (hb[i].pc = "write" /\ hb'[i].pc = "idle" /\ Merged(i))
          => LET before == Last(getASHeartbeats(store))
                 after == Last(getASHeartbeats(store'))
             IN  /\ after.duration >= before.duration
                 /\ after.duration >= hb[i].heartbeat.timestamp - before.timestamp
                 /\ after.duration \in {before.duration,
                                        hb[i].heartbeat.timestamp - before.timestamp}]_vars

C11_Witness ==
    /\ LastAddMerged
    /\ hist.lastAdd.heartbeat.timestamp < hist.lastAdd.tail.value.timestamp
    /\ hist.lastAdd.tail.value.duration = 1000
    /\ Last(getASHeartbeats(store)).duration = 1000

(* C12: an addASHeartbeat changes at most the last element or adds one     *)
(* element behind it: the buffer before the call without its last element  *)
(* is a prefix of the buffer after the call.                               *)
C12_FrontImmutable ==
    [][AddWriteStep
       => LET before == getASHeartbeats(store)
              after == getASHeartbeats(store')
          IN  /\ Len(after) \in {Len(before), Len(before) + 1}
              /\ Len(after) >= 1
              /\ before # <<>> => SubSeq(after, 1, Len(before) - 1) = Front(before)]_vars

C12_Witness ==
    /\ hist.lastAdd.n = 2
    /\ LastAddMerged
    /\ Len(getASHeartbeats(store)) = 2
    /\ Last(getASHeartbeats(store)) # hist.lastAdd.tail.value

Appended(i) ==
    \/ hb[i].existingHeartbeats = <<>>
    \/ Last(hb[i].existingHeartbeats).data.url # hb[i].heartbeat.data.url
    \/ hb[i].heartbeat.timestamp
           > WindowEnd(Last(hb[i].existingHeartbeats), hb[i].pulsetime)

(* C18: after an addASHeartbeat that appends, the last element that        *)
(* getASHeartbeats returns is the candidate in every field (timestamp to   *)
(* the millisecond, duration, url, title, email) although it went through  *)
(* toStorageFormat and fromStorageFormat, and the elements before it are   *)
(* the buffer from before the call.                                        *)
C18_AppendRoundTrip ==
    [][\A i \in Listeners :
          (hb[i].pc = "write" /\ hb'[i].pc = "idle" /\ Appended(i))
          => LET before == getASHeartbeats(store)
                 after == getASHeartbeats(store')
                 candidate == hb[i].heartbeat
             IN  /\ Len(after) = Len(before) + 1
                 /\ Last(after).timestamp = candidate.timestamp
                 /\ Last(after).duration = candidate.duration
                 /\ Last(after).data.url = candidate.data.url
                 /\ Last(after).data.title = candidate.data.title
                 /\ Last(after).email = candidate.email
                 /\ Last(after) = candidate
                 /\ Front(after) = before]_vars

C18_Witness ==
    /\ hist.lastAdd.n = 2
    /\ hist.lastAdd.heartbeat.timestamp = 2001
    /\ hist.lastAdd.heartbeat.email = "e2"
    /\ Len(getASHeartbeats(store)) = 3
    /\ Last(getASHeartbeats(store)) = hist.lastAdd.heartbeat

\* The locators that name a web page: scheme http or https and a host.
WebUrls == {UrlA, UrlB}
\* The locators that new URL rejects, and the values that are no string.
UnparsedUrls == {UrlNoHost, UrlGarbage, UrlEmpty, NotAString}

IsWeb(heartbeat) == heartbeat.data.url \in WebUrls
UrlsOf(heartbeats) == [k \in 1..Len(heartbeats) |-> heartbeats[k].data.url]

\* The result of the filter is the given heartbeats, one for one.
SameEvents(mapped, heartbeats) ==
    /\ Len(mapped) = Len(heartbeats)
    /\ \A k \in 1..Len(mapped) :
           /\ mapped[k].url = heartbeats[k].data.url
           /\ NewDate(mapped[k].timestamp) = heartbeats[k].timestamp
           /\ mapped[k].protocol \in {"http", "https"}
           /\ mapped[k].domain # ""

(* C15: filterValidHeartbeats over the mapped buffer returns, in the order *)
(* of the buffer, exactly the events whose url parses to scheme http or    *)
(* https with a host; a url that does not parse or is no string is mapped  *)
(* to an empty scheme and host and dropped; nothing in gives nothing out;  *)
(* and this result is what a sync cycle goes on with.                      *)
C15_FilterKeepsWebEventsInOrder ==
    LET input == getASHeartbeats(store)
        mapped == mapHeartbeatData(input)
        out == filterValidHeartbeats(mapped)
    IN  /\ SameEvents(out, SelectSeq(input, IsWeb))
        /\ \A k \in 1..Len(input) :
               input[k].data.url \in UnparsedUrls
               => mapped[k].protocol = "" /\ mapped[k].domain = ""
        /\ input = <<>> => out = <<>>
        /\ sync.pc \in {"send", "post"}
               => SameEvents(sync.data, SelectSeq(sync.asHeartbeats, IsWeb))

C15_Witness ==
    /\ sync.pc = "send"
    /\ UrlsOf(sync.asHeartbeats) = <<UrlB, NotAString, UrlA>>
    /\ Len(sync.data) = 2
    /\ sync.data[1].url = UrlB
    /\ sync.data[2].url = UrlA

(* C16: the batches of a cycle partition the filtered sequence: every      *)
(* batch holds at most 100 records, only the last one may hold fewer, and  *)
(* the batches put together in the order of their sends are the filtered   *)
(* sequence, which holds each valid record of the snapshot once.           *)
C16_BatchesPartitionFiltered ==
    sync.pc \in {"send", "post"}
    => /\ sync.data = filterValidHeartbeats(mapHeartbeatData(sync.asHeartbeats))
       /\ \A k \in 1..Len(sent) :
              /\ Len(sent[k].batch) >= 1
              /\ Len(sent[k].batch) <= 100
              /\ (k < Len(sent) \/ sync.pc = "send") => Len(sent[k].batch) = 100
       /\ SentRecords(sent) = SubSeq(sync.data, 1, Len(SentRecords(sent)))
       /\ sync.pc = "post" => SentRecords(sent) = sync.data

C16_Witness ==
    /\ sync.pc = "post"
    /\ Len(sent) = 2
    /\ Len(sent[1].batch) = 100
    /\ Len(sent[2].batch) = 8
    /\ Len(sync.asHeartbeats) = 110

ClearStep == hist'.clears.n = hist.clears.n + 1

(* C19: clearASHeartbeats removes every element and a second call changes  *)
(* nothing more: after one call or several in a row the key holds an array *)
(* and getASHeartbeats returns the empty sequence; an addASHeartbeat on    *)
(* the cleared buffer leaves the candidate as its only element.            *)
C19_ClearEmptiesAndIsIdempotent ==
    [][/\ ClearStep
           => /\ getASHeartbeats(store') = <<>>
              /\ getASHeartbeats(store) = <<>> => getASHeartbeats(store') = getASHeartbeats(store)
       /\ \A i \in Listeners :
              (hb[i].pc = "write" /\ hb'[i].pc = "idle"
               /\ hist.clears.n > 0 /\ hist.clears.atCalls < hist.calls
               /\ getASHeartbeats(store) = <<>>)
              => getASHeartbeats(store') = <<hb[i].heartbeat>>]_vars

C19_Witness ==
    /\ hist.clears.row = 2
    /\ hist.clears.removed = 2
    /\ hist.clears.atCalls < hist.calls
    /\ hist.lastAdd.n = 0
    /\ hist.lastAdd.heartbeat.timestamp = 2001
    /\ getASHeartbeats(store) = <<hist.lastAdd.heartbeat>>

FaultStep == hist'.settle.n = hist.settle.n + 1

(* C14: a storage operation on the buffer that rejects makes the call it   *)
(* belongs to fail towards its caller: a failing read or clear in a sync   *)
(* cycle fails the listener, a failing read or write in addASHeartbeat     *)
(* fails sendHeartbeat; a batch whose send fails never does.               *)
C14_StorageFaultsPropagate ==
    [][/\ FaultStep => hist'.settle.how = "rejected"
       /\ (SendStep /\ ~sent'[Len(sent')].success) => ~FaultStep]_vars

FailedSendStep == SendStep /\ ~sent'[Len(sent')].success

(* C17: the cycle after one that ended in PartialFailure hands the same    *)
(* records to the transport again; and when the buffer holds a valid       *)
(* event, the alarm keeps firing and from some point on no send fails, the *)
(* buffer is emptied at some point.                                        *)
C17_ResentUntilRemoved ==
    /\ [][(sync.pc = "post" /\ sync'.pc = "idle" /\ hist.prev.outcome = "PartialFailure")
          => SentRecords(sent) = hist.prev.data]_vars
    /\ <>[][~FailedSendStep]_vars => <>(getASHeartbeats(store) = <<>>)

C17_Witness ==
    /\ hist.prev.outcome = "PartialFailure"
    /\ hist.prev.data # <<>>
    /\ hist.outcome = "Cleared"
    /\ SentRecords(sent) = hist.prev.data
    /\ store = Stored(<<>>)

RetryPcs == {"server", "info", "bucket"}
BoundedCallers == Listeners \cup {"hostname"}

(* C20: a call retried with retries: 3 (client.heartbeat in sendHeartbeat, *)
(* client.getInfo in detectHostname) makes at most 4 attempts, ends with   *)
(* the first attempt that succeeds, has called onFailedAttempt once for    *)
(* each failed attempt, and ends resolved, or rejected after the fourth    *)
(* failure; each step of a pending call is one more attempt; ensureBucket  *)
(* (forever: true) ends resolved only.                                     *)
C20_RetryBoundedOrForever ==
    [][\A i \in RetryCallers :
          LET r == hb[i].retry
              f == hist'.lastRetry.retry
          IN  /\ (i \in BoundedCallers /\ hb[i].pc \in RetryPcs) => r.attempts < 4
              /\ hb[i].pc \in RetryPcs => r.hooks = r.attempts /\ r.status = "pending"
              /\ (hb[i].pc \in RetryPcs /\ hb'[i].pc = hb[i].pc /\ hb'[i] # hb[i])
                     => hb'[i].retry.attempts = r.attempts + 1
              /\ (hb[i].pc \in RetryPcs /\ hb'[i].pc = "idle")
                     => /\ hist'.lastRetry.who = i
                        /\ f.attempts = r.attempts + 1
                        /\ f.status \in {"resolved", "rejected"}
                        /\ f.status = "resolved" => f.hooks = f.attempts - 1
                        /\ f.status = "rejected"
                               => i \in BoundedCallers /\ f.attempts = 4 /\ f.hooks = 4
                        /\ i \in BoundedCallers => f.attempts <= 4
                        /\ i = "bucket" => f.status = "resolved"]_vars

C20_Witness ==
    /\ hist.lastRetry.who = "alarm"
    /\ hist.lastRetry.retry = [attempts |-> 4, hooks |-> 4, status |-> "rejected"]
    /\ hb["bucket"].pc = "bucket"
    /\ hb["bucket"].retry.attempts = 5

(* C21: every heartbeat in the buffer has a duration of at least 0: a      *)
(* heartbeat enters with duration 0 and a merge takes the larger of the    *)
(* duration the tail has and the new one, which is negative for a          *)
(* candidate that is earlier than the tail.                                *)
C21_DurationNonNegative ==
    \A k \in DOMAIN getASHeartbeats(store) : getASHeartbeats(store)[k].duration >= 0

C21_Witness ==
    /\ LastAddMerged
    /\ hist.lastAdd.heartbeat.timestamp = 1000
    /\ hist.lastAdd.tail.value.timestamp = 61000
    /\ getASHeartbeats(store) # <<>>
    /\ Last(getASHeartbeats(store)).timestamp = 61000
    /\ Last(getASHeartbeats(store)).duration = 0

(* C22: when the addASHeartbeat calls run one after the other and their    *)
(* timestamps never go back, no heartbeat in the buffer reaches into the   *)
(* next one: timestamp + duration of each is at most the timestamp of its  *)
(* successor.                                                              *)
C22_NoOverlap ==
    LET buffer == getASHeartbeats(store)
    IN  \A k \in 1..(Len(buffer) - 1) :
            buffer[k].timestamp + buffer[k].duration <= buffer[k + 1].timestamp

C22_Witness ==
    LET buffer == getASHeartbeats(store)
    IN  /\ Len(buffer) = 2
        /\ buffer[1].duration = 1000
        /\ buffer[1].timestamp + buffer[1].duration = buffer[2].timestamp
        /\ buffer[1].data.url # buffer[2].data.url

\* The CLOUD_SYNC policy is on: managed storage exists and holds true.
CloudSyncOn == managed.available /\ managed.CLOUD_SYNC = On

(* C23: with the CLOUD_SYNC policy on, a sendHeartbeat call goes to        *)
(* addASHeartbeat and nothing else: no client.heartbeat attempt, no        *)
(* ensureBucket, no write of lastSyncSuccess; with the policy off or not   *)
(* there it goes to the server and never changes the buffer.               *)
C23_OnePathPerPolicy ==
    [][/\ CloudSyncOn
           => /\ \A i \in RetryCallers : hb'[i].pc \notin {"server", "bucket"}
              /\ \A i \in Listeners :
                     (hb[i].pc = "idle" /\ hb'[i].pc # "idle") => hb'[i].pc = "add"
              /\ local'.lastSyncSuccess = local.lastSyncSuccess
              /\ hist'.lastRetry = hist.lastRetry
       /\ ~CloudSyncOn
           => /\ store' = store
              /\ \A i \in Listeners :
                     /\ hb'[i].pc \notin {"add", "write"}
                     /\ (hb[i].pc = "idle" /\ hb'[i].pc # "idle") => hb'[i].pc = "server"]_vars

\* With the policy off the server was called four times, the status written
\* and ensureBucket started, and the buffer is as it was.
C23_Witness ==
    /\ ~CloudSyncOn
    /\ hist.lastRetry.who \in Listeners
    /\ hist.lastRetry.retry.status = "rejected"
    /\ local.lastSyncSuccess = "false"
    /\ hb["bucket"].pc = "bucket"
    /\ store = Stored(<<toStorageFormat(Heartbeat(1000, UrlA, "t", Undefined))>>)

\* Nothing is under way for the waitForKey call: its get has returned, it has
\* compared or registered, and every onChanged event has been delivered.
WaitSettled == wait.pc \in {"listen", "done"} /\ wait.changes = <<>>

(* C24: waitForKey('enabled', true) resolves when the key held true at its *)
(* read or was set to true at any time after it, also between the read    *)
(* and the registration of the listener; it resolves at most once and its  *)
(* listener is gone when it has resolved.                                  *)
C24_NoMissedWakeUp ==
    /\ (WaitSettled /\ hist.waited.due) => wait.pc = "done"
    /\ wait.resolved <= 1
    /\ wait.pc = "done" => wait.resolved = 1 /\ ~wait.listening

====
